---- MODULE Spec2Model ----
(***************************************************************************)
(* tsh - a tiny shell with job control (src/tsh.c).                        *)
(*                                                                         *)
(* The model has the shell's main control flow (eval, do_bgfg, waitfg),    *)
(* its three signal handlers running on a handler stack above it, the job  *)
(* table with its helper routines, and the child processes the shell       *)
(* forks.  A signal is first generated (it becomes pending) and is later   *)
(* delivered, if the signal mask allows it, between any two statements of  *)
(* the interrupted flow.                                                   *)
(***************************************************************************)
EXTENDS Integers, Sequences, FiniteSets, TLC

(* ------------------------------------------------------------------ *)
(* Program constants                                                    *)
(* ------------------------------------------------------------------ *)
MAXJOBS == 16
UNDEF == 0
FG == 1
BG == 2
ST == 3

(* ------------------------------------------------------------------ *)
(* Bounds of the model                                                  *)
(* ------------------------------------------------------------------ *)
\* children the shell forks in one behaviour of Spec
MaxPid == 2
\* children the shell forks in one behaviour of SpecNoKeys
MaxQuietPid == 4
\* addjob calls, and deletejob calls, in one behaviour of TableSpec
MaxTablePid == 18
MaxDeletes == 2
\* bytes a pipe holds before a write to it blocks
PipeCap == 1

Slots == 0 .. (MAXJOBS - 1)
Pids == 1 .. (IF MaxPid > MaxQuietPid THEN MaxPid ELSE MaxQuietPid)
NULL == -1

Signals == {"CHLD", "INT", "TSTP"}

(* Command lines, as the token vectors parseline makes of them. *)
ExtCmds == { <<"a", "&">>, <<"a", "|", "b">> }
NoCmd == << >>

IsBackground(argv) == argv[Len(argv)] = "&"
HasPipe(argv) == \E i \in 1 .. Len(argv) : argv[i] = "|"

(* ------------------------------------------------------------------ *)
(* The job table and its helper routines                                *)
(* ------------------------------------------------------------------ *)
ClearedJob == [pid |-> 0, jid |-> 0, state |-> UNDEF, cmdline |-> NoCmd]

clearjob(J, i) == [J EXCEPT ![i] = ClearedJob]

initjobs == [i \in Slots |-> ClearedJob]

freejid_Largest(J) ==
    LET taken == {J[i].jid : i \in Slots} \ {0}
        free == {n \in 1 .. MAXJOBS : n \notin taken}
    IN  IF free = {} THEN 0 ELSE CHOOSE n \in free : \A k \in free : n >= k

\* smallest jid no entry uses; 0 when jids 1..MAXJOBS are all taken
freejid(J) ==
    LET taken == {J[i].jid : i \in Slots} \ {0}
        free == {n \in 1 .. MAXJOBS : n \notin taken}
    IN  IF free = {} THEN 0 ELSE CHOOSE n \in free : \A k \in free : n <= k

\* the slot a scan "for (i = 0; i < MAXJOBS; i++)" stops at, hits being the
\* slots that pass its test; NULL when there is none
FirstSlot(hits) ==
    IF hits = {} THEN NULL ELSE CHOOSE i \in hits : \A k \in hits : i <= k

addjob_Evicting(J, pid, state, cmdline) ==
    LET i == FirstSlot({k \in Slots : J[k].pid = 0})
        new == [pid |-> pid, jid |-> freejid(J), state |-> state, cmdline |-> cmdline]
    IN  IF pid < 1 THEN [ret |-> 0, jobs |-> J]
        ELSE IF i = NULL THEN [ret |-> 0, jobs |-> [J EXCEPT ![0] = new]]
        ELSE [ret |-> 1, jobs |-> [J EXCEPT ![i] = new]]

\* result of addjob: the return value and the table it leaves
addjob(J, pid, state, cmdline) ==
    LET free == freejid(J)
        i == FirstSlot({k \in Slots : J[k].pid = 0})
    IN  IF pid < 1 \/ free = 0 \/ i = NULL
        THEN [ret |-> 0, jobs |-> J]
        ELSE [ret |-> 1,
              jobs |-> [J EXCEPT ![i] = [pid |-> pid, jid |-> free,
                                        state |-> state, cmdline |-> cmdline]]]

deletejob(J, pid) ==
    LET i == FirstSlot({k \in Slots : J[k].pid = pid})
    IN  IF pid < 1 \/ i = NULL THEN J ELSE clearjob(J, i)

\* pid of the first entry in state FG, 0 when there is none
fgpid(J) ==
    LET i == FirstSlot({k \in Slots : J[k].state = FG})
    IN  IF i = NULL THEN 0 ELSE J[i].pid

getjobpid_Unguarded(J, pid) == FirstSlot({k \in Slots : J[k].pid = pid})

\* slot of the entry with this pid (the pointer getjobpid returns), or NULL
getjobpid(J, pid) ==
    IF pid < 1 THEN NULL ELSE FirstSlot({k \in Slots : J[k].pid = pid})

getjobjid(J, jid) ==
    IF jid < 1 THEN NULL ELSE FirstSlot({k \in Slots : J[k].jid = jid})

(* ------------------------------------------------------------------ *)
(* State                                                                *)
(* ------------------------------------------------------------------ *)
VARIABLES
    jobs,       \* struct job_t jobs[MAXJOBS]
    proc,       \* the children: proc[p] = [phase, argv]
    nextpid,    \* pid the next fork returns
    lastpid,    \* the last pid a fork returns in this behaviour
    pc,         \* position of the main control flow
    loc,        \* locals of eval / do_bgfg / waitfg
    mask,       \* the shell's signal mask
    pending,    \* signals generated for the shell and not yet delivered
    stack,      \* frames of the signal handlers that are running, innermost last
    shell,      \* "running", or how the shell process ended
    out,        \* the line the last step printed, NoLine if it printed nothing
    ndel,       \* deletejob calls made (TableSpec)
    child       \* a forked child on its way from fork to execve: its argv,
                \* argc, loop index and standard streams (ArgSpec)

vars == <<jobs, proc, nextpid, lastpid, pc, loc, mask, pending, stack, shell, out, ndel,
         child>>

NoProc == [phase |-> "none", argv |-> NoCmd, tstp |-> FALSE, data |-> 0, fill |-> 0]
NoLoc == [argv |-> NoCmd, state |-> UNDEF, f |-> 0, job |-> NULL, pid |-> 0,
          cur |-> 0, wpid |-> 0, prev |-> {}]
NoLine == [head |-> "", jid |-> 0, pid |-> 0, tail |-> "", cmdline |-> NoCmd]

\* the shell when main has installed the handlers and called initjobs
Start(last) ==
    /\ jobs = initjobs
    /\ proc = [p \in Pids |-> NoProc]
    /\ nextpid = 1
    /\ lastpid = last
    /\ pc = "prompt"
    /\ loc = NoLoc
    /\ mask = {}
    /\ pending = {}
    /\ stack = << >>
    /\ shell = "running"
    /\ out = NoLine
    /\ ndel = 0

\* no child is followed from fork to execve
NoChild == [stage |-> "none"]

Init == Start(MaxPid) /\ child = NoChild

\* A signal that is pending and not blocked is delivered before the shell
\* executes anything else.
Deliverable == pending \ mask
Quiet == shell = "running" /\ Deliverable = {}

MainRuns == Quiet /\ stack = << >>

(* ------------------------------------------------------------------ *)
(* The operating system: children, process groups, kill                 *)
(* ------------------------------------------------------------------ *)
(* Phases of a child the shell forked:                                     *)
(*   "none"     not forked                                                 *)
(*   "pre"      forked, before check_pipeline; still in the shell's group  *)
(*   "pipe"     in wait(NULL) of check_pipeline while the helper process   *)
(*              it forked for the other side of "|" runs; still in the     *)
(*              shell's group, SIGINT and SIGTSTP blocked                  *)
(*   "run"      after setpgid(0, 0): leader of its own group, running      *)
(*   "stopped"  leader of its own group, stopped                           *)
(*   "zombie"   terminated, not yet waited for                             *)
(*   "crashed"  terminated before setpgid(0, 0), in the shell's group,     *)
(*              not yet waited for                                         *)
(*   "reaped"   waited for: the pid names no process                       *)
Leader(p) == <<p, "leader">>
Helper(p) == <<p, "helper">>
ShellProc == <<0, "shell">>

ProcessExists(P, p) ==
    p \in DOMAIN P /\ P[p].phase \in {"pre", "pipe", "run", "stopped", "zombie", "crashed"}
HasOwnGroup(P, p) == p \in DOMAIN P /\ P[p].phase \in {"run", "stopped", "zombie"}

\* the processes that make up the job whose leader is p
JobProcesses(P, p) ==
    IF ~ProcessExists(P, p) THEN {}
    ELSE {Leader(p)} \cup (IF P[p].phase = "pipe" THEN {Helper(p)} ELSE {})

\* the processes kill(arg, sig) signals: one process for arg > 0, the
\* process group -arg for arg < 0, the caller's own group for arg = 0.
\* A helper never belongs to its leader's group: it is forked before the
\* leader calls setpgid and calls setpgid(0, 0) for itself.
KillTargets(P, arg) ==
    IF arg > 0 THEN (IF ProcessExists(P, arg) THEN {Leader(arg)} ELSE {})
    ELSE IF arg < 0 THEN (IF HasOwnGroup(P, -arg) THEN {Leader(-arg)} ELSE {})
    ELSE {ShellProc} \cup {Leader(p) : p \in {q \in DOMAIN P : P[q].phase \in {"pre", "pipe", "crashed"}}}

\* kill fails with ESRCH when it finds nothing to signal
KillFails(P, arg) == KillTargets(P, arg) = {}

\* children after SIGCONT reached the processes in T: a stopped one runs again
Continued(P, T) ==
    [p \in DOMAIN P |->
        IF Leader(p) \in T /\ P[p].phase = "stopped"
        THEN [P[p] EXCEPT !.phase = "run"] ELSE P[p]]

SomeContinued(P, T) == \E p \in DOMAIN P : Leader(p) \in T /\ P[p].phase = "stopped"

(* ------------------------------------------------------------------ *)
(* eval                                                                 *)
(* ------------------------------------------------------------------ *)
EvalBlockSet_NoChld == {"INT", "TSTP"}

\* the set eval blocks before fork
EvalBlockSet == {"CHLD", "INT", "TSTP"}

\* eval up to fork: an external command; signals blocked, SIGINT and
\* SIGTSTP ignored, the child forked
EvalFork(argv) ==
    /\ MainRuns /\ pc = "prompt"
    /\ nextpid <= lastpid
    /\ mask' = mask \cup EvalBlockSet
    /\ proc' = [proc EXCEPT ![nextpid] = [NoProc EXCEPT !.phase = "pre", !.argv = argv]]
    /\ nextpid' = nextpid + 1
    /\ loc' = [NoLoc EXCEPT !.argv = argv,
                            !.state = IF IsBackground(argv) THEN BG ELSE FG,
                            !.f = nextpid]
    /\ pc' = "e_forked"
    /\ UNCHANGED <<jobs, pending, stack, shell, ndel, lastpid, child>>
    /\ out' = NoLine

\* the parent registers the job
EvalAddjob ==
    /\ MainRuns /\ pc = "e_forked"
    /\ LET r == addjob(jobs, loc.f, loc.state, loc.argv)
       IN  IF r.ret # 1
           THEN /\ shell' = "exit"
                /\ UNCHANGED <<jobs, pc>>
           ELSE /\ jobs' = r.jobs
                /\ pc' = "e_added"
                /\ UNCHANGED shell
    /\ UNCHANGED <<proc, nextpid, loc, mask, pending, stack, ndel, lastpid, child>>
    /\ out' = NoLine

\* sigprocmask(SIG_UNBLOCK) and the three signal() calls.  SIGINT and
\* SIGTSTP are ignored until here: the ones that arrived since the block
\* are delivered to SIG_IGN, that is, dropped.
EvalUnblock ==
    /\ MainRuns /\ pc = "e_added"
    /\ mask' = mask \ {"CHLD", "INT", "TSTP"}
    /\ UNCHANGED pending
    /\ pc' = "e_tail"
    /\ UNCHANGED <<jobs, proc, nextpid, loc, stack, shell, ndel, lastpid, child>>
    /\ out' = NoLine

AnnounceLine_Plain(job) ==
    [head |-> "[%d] (%d) ", jid |-> job.jid, pid |-> job.pid, tail |-> "",
     cmdline |-> job.cmdline]

\* what eval prints for a background job
AnnounceLine(job) ==
    [head |-> "[%d] (%d) ", jid |-> job.jid, pid |-> job.pid, tail |-> "Running ",
     cmdline |-> job.cmdline]

\* A null pointer is dereferenced: the access to page 0 faults (SIGSEGV),
\* or the trap the compiler puts on a path it proved erroneous is taken
\* (SIGILL).  Either way the shell process is killed.
NullDeref == {"segv", "trap"}

\* background job: look the job up again and announce it
EvalAnnounce ==
    /\ MainRuns /\ pc = "e_tail" /\ loc.state = BG
    /\ LET j == getjobpid(jobs, loc.f)
       IN  IF j = NULL
           THEN /\ shell' \in NullDeref
                /\ UNCHANGED <<pc, loc>>
                /\ out' = NoLine
           ELSE /\ out' = AnnounceLine(jobs[j])
                /\ pc' = "prompt"
                /\ loc' = NoLoc
                /\ UNCHANGED shell
    /\ UNCHANGED <<jobs, proc, nextpid, mask, pending, stack, ndel, lastpid, child>>

(* ------------------------------------------------------------------ *)
(* waitfg                                                               *)
(* ------------------------------------------------------------------ *)
\* the set waitfg blocks around its loop
WaitBlockSet == {"CHLD"}

\* entry of waitfg(pid): block SIGCHLD, remember the old mask
WaitfgEnter(pid) ==
    /\ loc' = [loc EXCEPT !.wpid = pid, !.prev = mask]
    /\ mask' = mask \cup WaitBlockSet
    /\ pc' = "w_check"

\* foreground job: eval calls waitfg(f)
EvalWaitfg ==
    /\ MainRuns /\ pc = "e_tail" /\ loc.state = FG
    /\ WaitfgEnter(loc.f)
    /\ UNCHANGED <<jobs, proc, nextpid, pending, stack, shell, ndel, lastpid, child>>
    /\ out' = NoLine

\* the loop test of waitfg; on exit the old mask is restored and the
\* caller returns to the prompt
WaitfgCheck ==
    /\ MainRuns /\ pc = "w_check"
    /\ IF loc.wpid = fgpid(jobs)
       THEN /\ pc' = "w_suspend"
            /\ UNCHANGED <<loc, mask>>
       ELSE /\ pc' = "prompt"
            /\ mask' = loc.prev
            /\ loc' = NoLoc
    /\ UNCHANGED <<jobs, proc, nextpid, pending, stack, shell, ndel, lastpid, child>>
    /\ out' = NoLine

\* sigsuspend(&prev_mask): the mask is replaced and the shell sleeps
\* until a handler has run
WaitfgSigsuspend ==
    /\ MainRuns /\ pc = "w_suspend"
    /\ mask' = loc.prev
    /\ pc' = "w_sleep"
    /\ UNCHANGED <<jobs, proc, nextpid, loc, pending, stack, shell, ndel, lastpid, child>>
    /\ out' = NoLine

(* ------------------------------------------------------------------ *)
(* do_bgfg                                                              *)
(* ------------------------------------------------------------------ *)
\* argv[1] of bg and fg: <<"%", n>> is the text "%n", <<"", n>> the text "n";
\* n = 0 is what atoi makes of a text that is no number
Targets == {<<k, n>> : k \in {"%", ""}, n \in {0} \cup Pids}

\* the job argv[1] names: by jid after "%", by pid otherwise
BgFgResolve(J, t) ==
    IF t[1] = "%" THEN getjobjid(J, t[2]) ELSE getjobpid(J, t[2])

NoSuchJobLine(t) ==
    [head |-> "%s: No such job\n", jid |-> 0, pid |-> 0, tail |-> t[1],
     cmdline |-> NoCmd]

BgLine(job) ==
    [head |-> "[%d] (%d) %s", jid |-> job.jid, pid |-> job.pid, tail |-> "",
     cmdline |-> job.cmdline]

\* bg or fg with a target no job has
BgFgNoSuchJob(cmd, t) ==
    /\ MainRuns /\ pc = "prompt"
    /\ BgFgResolve(jobs, t) = NULL
    /\ out' = NoSuchJobLine(t)
    /\ UNCHANGED <<jobs, proc, nextpid, pc, loc, mask, pending, stack, shell, ndel,
                   lastpid, child>>

\* bg or fg: the lookup found a job; job points to its slot, pid is its pid
BgFgLookup(cmd, t) ==
    /\ MainRuns /\ pc = "prompt"
    /\ BgFgResolve(jobs, t) # NULL
    /\ loc' = [NoLoc EXCEPT !.argv = <<cmd>>, !.job = BgFgResolve(jobs, t),
                            !.pid = jobs[BgFgResolve(jobs, t)].pid]
    /\ pc' = IF cmd = "bg" THEN "b_found" ELSE "f_found"
    /\ UNCHANGED <<jobs, proc, nextpid, mask, pending, stack, shell, ndel, lastpid, child>>
    /\ out' = NoLine

\* bg: job->state = BG
BgSet ==
    /\ MainRuns /\ pc = "b_found"
    /\ jobs' = [jobs EXCEPT ![loc.job].state = BG]
    /\ pc' = "b_set"
    /\ UNCHANGED <<proc, nextpid, loc, mask, pending, stack, shell, ndel, lastpid, child>>
    /\ out' = NoLine

\* kill(-(job->pid), SIGCONT) of bg and of fg
ContKill ==
    LET arg == -(jobs[loc.job].pid)
        T == KillTargets(proc, arg)
    IN  IF KillFails(proc, arg)
        THEN /\ shell' = "exit"
             /\ UNCHANGED <<proc, pending>>
        ELSE /\ proc' = Continued(proc, T)
             /\ pending' = IF SomeContinued(proc, T) THEN pending \cup {"CHLD"}
                           ELSE pending
             /\ UNCHANGED shell

\* bg: the continue request and the status line
BgKill ==
    /\ MainRuns /\ pc = "b_set"
    /\ ContKill
    /\ IF shell' = "running"
       THEN /\ out' = BgLine(jobs[loc.job])
            /\ pc' = "prompt"
            /\ loc' = NoLoc
       ELSE /\ UNCHANGED <<pc, loc>>
            /\ out' = NoLine
    /\ UNCHANGED <<jobs, nextpid, mask, stack, ndel, lastpid, child>>

\* fg: job->state = FG
FgSet ==
    /\ MainRuns /\ pc = "f_found"
    /\ jobs' = [jobs EXCEPT ![loc.job].state = FG]
    /\ pc' = "f_set"
    /\ UNCHANGED <<proc, nextpid, loc, mask, pending, stack, shell, ndel, lastpid, child>>
    /\ out' = NoLine

\* fg: current_pid = fgpid(jobs); nothing more is done when it is 0
FgFgpid ==
    /\ MainRuns /\ pc = "f_set"
    /\ IF fgpid(jobs) = 0
       THEN /\ pc' = "prompt"
            /\ loc' = NoLoc
       ELSE /\ pc' = "f_got"
            /\ loc' = [loc EXCEPT !.cur = fgpid(jobs)]
    /\ UNCHANGED <<jobs, proc, nextpid, mask, pending, stack, shell, ndel, lastpid, child>>
    /\ out' = NoLine

\* fg: the continue request
FgKill ==
    /\ MainRuns /\ pc = "f_got"
    /\ ContKill
    /\ pc' = IF shell' = "running" THEN "f_killed" ELSE pc
    /\ UNCHANGED <<jobs, nextpid, loc, mask, stack, ndel, lastpid, child>>
    /\ out' = NoLine

\* fg: waitfg(current_pid)
FgWaitfg ==
    /\ MainRuns /\ pc = "f_killed"
    /\ WaitfgEnter(loc.cur)
    /\ UNCHANGED <<jobs, proc, nextpid, pending, stack, shell, ndel, lastpid, child>>
    /\ out' = NoLine

(* ------------------------------------------------------------------ *)
(* Signal delivery and the handlers                                     *)
(* ------------------------------------------------------------------ *)
(* A handler that has been entered and has not yet executed a statement  *)
(* has changed nothing, so entering a handler and its first statement    *)
(* are one step.  After that first statement a handler can be            *)
(* interrupted by any signal that is not blocked.                        *)
Top == stack[Len(stack)]
Below == SubSeq(stack, 1, Len(stack) - 1)
InHandler(h, at) == Quiet /\ stack # << >> /\ Top.h = h /\ Top.pc = at

\* what is blocked while the handler of sig runs, besides the mask in force:
\* sa_mask is empty, the signal itself is blocked
HandlerMask(sig) == {sig}

Frame(sig, at, pid, missed) ==
    [h |-> sig, pc |-> at, pid |-> pid, omask |-> mask, missed |-> missed]

\* the handler of sig is entered and goes on running
Enter(f) ==
    /\ stack' = Append(stack, f)
    /\ mask' = mask \cup HandlerMask(f.h)
    /\ pc' = pc

\* a handler that was entered on the main flow returns at once; a
\* sigsuspend it interrupted returns to waitfg's loop with the mask waitfg
\* had set
Wake ==
    IF stack = << >> /\ pc = "w_sleep"
    THEN /\ pc' = "w_check"
         /\ mask' = loc.prev \cup WaitBlockSet
    ELSE /\ pc' = pc
         /\ mask' = mask

\* the running handler returns: the interrupted mask is back, and a
\* sigsuspend that was interrupted returns
HandlerReturn ==
    /\ stack' = Below
    /\ IF Below = << >> /\ pc = "w_sleep"
       THEN /\ pc' = "w_check"
            /\ mask' = loc.prev \cup WaitBlockSet
       ELSE /\ pc' = pc
            /\ mask' = Top.omask

SetTop(f) == stack' = Append(Below, f)

Zombies == {p \in Pids : proc[p].phase \in {"zombie", "crashed"}}
Reaped(p) == [proc EXCEPT ![p] = [NoProc EXCEPT !.phase = "reaped"]]

\* SIGCHLD is delivered; sigchld_handler's first waitpid(-1, NULL, WNOHANG)
\* returns a terminated child
SigchldEnterReap(p) ==
    /\ shell = "running" /\ "CHLD" \in Deliverable
    /\ p \in Zombies
    /\ pending' = pending \ {"CHLD"}
    /\ proc' = Reaped(p)
    /\ Enter(Frame("CHLD", "delete", p, {}))
    /\ out' = NoLine
    /\ UNCHANGED <<jobs, nextpid, loc, shell, ndel, lastpid, child>>

\* SIGCHLD is delivered and no child has terminated (a child stopped or
\* continued, or an earlier run of the handler reaped it already)
SigchldEnterDone ==
    /\ shell = "running" /\ "CHLD" \in Deliverable
    /\ Zombies = {}
    /\ pending' = pending \ {"CHLD"}
    /\ Wake
    /\ out' = NoLine
    /\ UNCHANGED <<jobs, proc, nextpid, loc, stack, shell, ndel, lastpid, child>>

\* sigchld_handler: deletejob(jobs, j)
SigchldDelete ==
    /\ InHandler("CHLD", "delete")
    /\ jobs' = deletejob(jobs, Top.pid)
    /\ SetTop([Top EXCEPT !.pc = "wait", !.pid = 0])
    /\ out' = NoLine
    /\ UNCHANGED <<proc, nextpid, pc, loc, mask, pending, shell, ndel, lastpid, child>>

\* sigchld_handler: round the loop, waitpid returns another terminated child
SigchldReap(p) ==
    /\ InHandler("CHLD", "wait")
    /\ p \in Zombies
    /\ proc' = Reaped(p)
    /\ SetTop([Top EXCEPT !.pc = "delete", !.pid = p])
    /\ out' = NoLine
    /\ UNCHANGED <<jobs, nextpid, pc, loc, mask, pending, shell, ndel, lastpid, child>>

\* sigchld_handler: waitpid finds no terminated child; the handler returns
SigchldDone ==
    /\ InHandler("CHLD", "wait")
    /\ Zombies = {}
    /\ HandlerReturn
    /\ out' = NoLine
    /\ UNCHANGED <<jobs, proc, nextpid, loc, pending, shell, ndel, lastpid, child>>

(* The keyboard.  A key pressed while its signal is blocked by the        *)
(* handler of the same key acts like a key pressed when that handler      *)
(* returns; a key pressed while eval has the signal blocked finds it      *)
(* ignored (signal(SIGINT, SIG_IGN), signal(SIGTSTP, SIG_IGN)) when eval  *)
(* unblocks it, and does nothing.  So a key acts when its signal is not   *)
(* blocked.                                                               *)
KeyArrives(sig) == Quiet /\ sig \notin mask

\* the interrupt key (h = "INT") or the suspend key (h = "TSTP") when
\* fgpid(jobs) is 0: the handler returns at once
KeyNoForeground(h) ==
    /\ KeyArrives(h)
    /\ fgpid(jobs) = 0
    /\ Wake
    /\ out' = NoLine
    /\ UNCHANGED <<jobs, proc, nextpid, loc, pending, stack, shell, ndel, lastpid, child>>

\* the first argument of kill in sigint_handler
SigintKillArg(fg) == -fg

\* the first argument of kill in sigtstp_handler
SigtstpKillArg(fg) == fg

\* The kill of a key handler.  A running leader the signal reaches goes to
\* phase `to`, or stays running when its program catches or ignores the
\* signal; a leader that has not yet called setpgid has SIGTSTP blocked and
\* keeps it pending.
ForwardKey(h, arg, to) ==
    LET fg == fgpid(jobs)
        T == KillTargets(proc, arg)
    IN  IF KillFails(proc, arg)
        THEN /\ shell' = "exit"
             /\ stack' = Append(stack, Frame(h, "kill", fg, {}))
             /\ UNCHANGED <<proc, pending, mask, pc>>
        ELSE /\ \E ph \in {"run", to} :
                 /\ proc' = [p \in Pids |->
                       IF Leader(p) \notin T THEN proc[p]
                       ELSE IF proc[p].phase = "run" THEN [proc[p] EXCEPT !.phase = ph]
                       ELSE IF proc[p].phase \in {"pre", "pipe"} /\ h = "TSTP"
                            THEN [proc[p] EXCEPT !.tstp = TRUE]
                       ELSE proc[p]]
                 /\ pending' = IF ph # "run" /\ proc[fg].phase = "run"
                               THEN pending \cup {"CHLD"} ELSE pending
             /\ Enter(Frame(h, "look", fg, JobProcesses(proc, fg) \ T))
             /\ UNCHANGED shell

\* sigint_handler: fg = fgpid(jobs) is not 0; kill(-fg, SIGINT)
SigintKill ==
    /\ KeyArrives("INT")
    /\ fgpid(jobs) # 0
    /\ ForwardKey("INT", SigintKillArg(fgpid(jobs)), "zombie")
    /\ out' = NoLine
    /\ UNCHANGED <<jobs, nextpid, loc, ndel, lastpid, child>>

IntLine(job) ==
    [head |-> "Job [%d] (%d) terminated by signal 2\n", jid |-> job.jid,
     pid |-> job.pid, tail |-> "", cmdline |-> NoCmd]

\* sigint_handler: job = getjobpid(jobs, fg); the report; return
SigintReport ==
    /\ InHandler("INT", "look")
    /\ LET j == getjobpid(jobs, Top.pid)
       IN  IF j = NULL
           THEN /\ shell' \in NullDeref
                /\ out' = NoLine
                /\ UNCHANGED <<stack, mask, pc>>
           ELSE /\ out' = IntLine(jobs[j])
                /\ HandlerReturn
                /\ UNCHANGED shell
    /\ UNCHANGED <<jobs, proc, nextpid, loc, pending, ndel, lastpid, child>>

\* sigtstp_handler: fg = fgpid(jobs) is not 0; kill(fg, SIGTSTP)
SigtstpKill ==
    /\ KeyArrives("TSTP")
    /\ fgpid(jobs) # 0
    /\ ForwardKey("TSTP", SigtstpKillArg(fgpid(jobs)), "stopped")
    /\ out' = NoLine
    /\ UNCHANGED <<jobs, nextpid, loc, ndel, lastpid, child>>

\* the state sigtstp_handler gives the job
SigtstpState == ST

\* sigtstp_handler: job = getjobpid(jobs, fg); job->state = ST; return
SigtstpMark ==
    /\ InHandler("TSTP", "look")
    /\ LET j == getjobpid(jobs, Top.pid)
       IN  IF j = NULL
           THEN /\ shell' \in NullDeref
                /\ UNCHANGED <<jobs, stack, mask, pc>>
           ELSE /\ jobs' = [jobs EXCEPT ![j].state = SigtstpState]
                /\ HandlerReturn
                /\ UNCHANGED shell
    /\ out' = NoLine
    /\ UNCHANGED <<proc, nextpid, loc, pending, ndel, lastpid, child>>

(* ------------------------------------------------------------------ *)
(* The children                                                         *)
(* ------------------------------------------------------------------ *)
\* check_pipeline finds "|": the child forks a helper for the tokens after
\* it, with the pipe as its standard output, and waits for the helper.
\* fill is the number of bytes in the pipe, data the size of the write the
\* helper's program is blocked in.
ChildPipeline(p) ==
    /\ Quiet
    /\ proc[p].phase = "pre" /\ HasPipe(proc[p].argv)
    /\ proc' = [proc EXCEPT ![p].phase = "pipe", ![p].data = 0, ![p].fill = 0]
    /\ out' = NoLine
    /\ UNCHANGED <<jobs, nextpid, pc, loc, mask, pending, stack, shell, ndel, lastpid, child>>

\* the helper's program writes a byte to the pipe.  Nobody reads the pipe
\* while the child is in wait(NULL), so the write to a full pipe blocks.
HelperWrite(p) ==
    /\ Quiet
    /\ proc[p].phase = "pipe" /\ proc[p].data = 0
    /\ proc' = IF proc[p].fill < PipeCap
               THEN [proc EXCEPT ![p].fill = @ + 1]
               ELSE [proc EXCEPT ![p].data = 1]
    /\ out' = NoLine
    /\ UNCHANGED <<jobs, nextpid, pc, loc, mask, pending, stack, shell, ndel, lastpid, child>>

\* wait(NULL) returns: the helper, not blocked in a write, has terminated
HelperDone(P, p) == P[p].phase = "pipe" /\ P[p].data = 0

\* the child (after its helper, if any, has terminated) does its
\* redirections, calls setpgid(0, 0), sets SIGINT and SIGTSTP to SIG_DFL,
\* unblocks the signals and execs; a SIGTSTP that was pending stops it
ChildSetpgid(p) ==
    /\ Quiet
    /\ \/ proc[p].phase = "pre" /\ ~HasPipe(proc[p].argv)
       \/ HelperDone(proc, p)
    /\ proc' = [proc EXCEPT ![p] =
                  [NoProc EXCEPT !.phase = IF proc[p].tstp THEN "stopped" ELSE "run"]]
    /\ pending' = IF proc[p].tstp THEN pending \cup {"CHLD"} ELSE pending
    /\ out' = NoLine
    /\ UNCHANGED <<jobs, nextpid, pc, loc, mask, stack, shell, ndel, lastpid, child>>

\* After check_pipeline the child's redirection loop runs up to the argc of
\* the whole command line and passes argv[i] = NULL, which check_pipeline
\* stored over "|", to strcmp.  That is undefined: the child may go on
\* (ChildSetpgid) or be killed by the fault, before setpgid(0, 0).
ChildScanFault(p) ==
    /\ Quiet
    /\ HelperDone(proc, p)
    /\ proc' = [proc EXCEPT ![p] = [NoProc EXCEPT !.phase = "crashed"]]
    /\ pending' = pending \cup {"CHLD"}
    /\ out' = NoLine
    /\ UNCHANGED <<jobs, nextpid, pc, loc, mask, stack, shell, ndel, lastpid, child>>

\* a child terminates: exec failed, the program exited, or a signal killed it
ChildExit(p) ==
    /\ Quiet
    /\ proc[p].phase = "run"
    /\ proc' = [proc EXCEPT ![p].phase = "zombie"]
    /\ pending' = pending \cup {"CHLD"}
    /\ out' = NoLine
    /\ UNCHANGED <<jobs, nextpid, pc, loc, mask, stack, shell, ndel, lastpid, child>>

(* ------------------------------------------------------------------ *)
(* The shell                                                            *)
(* ------------------------------------------------------------------ *)
MainFlow ==
    \/ \E argv \in ExtCmds : EvalFork(argv)
    \/ EvalAddjob
    \/ EvalUnblock
    \/ EvalAnnounce
    \/ EvalWaitfg
    \/ WaitfgCheck
    \/ WaitfgSigsuspend
    \/ \E cmd \in {"bg", "fg"}, t \in Targets : BgFgNoSuchJob(cmd, t)
    \/ \E cmd \in {"bg", "fg"}, t \in Targets : BgFgLookup(cmd, t)
    \/ BgSet
    \/ BgKill
    \/ FgSet
    \/ FgFgpid
    \/ FgKill
    \/ FgWaitfg

ChildHandler ==
    \/ \E p \in Pids : SigchldEnterReap(p)
    \/ SigchldEnterDone
    \/ SigchldDelete
    \/ \E p \in Pids : SigchldReap(p)
    \/ SigchldDone

KeyHandlers ==
    \/ \E h \in {"INT", "TSTP"} : KeyNoForeground(h)
    \/ SigintKill
    \/ SigintReport
    \/ SigtstpKill
    \/ SigtstpMark

Children ==
    \/ \E p \in Pids : ChildPipeline(p)
    \/ \E p \in Pids : HelperWrite(p)
    \/ \E p \in Pids : ChildSetpgid(p)
    \/ \E p \in Pids : ChildScanFault(p)
    \/ \E p \in Pids : ChildExit(p)

Next == MainFlow \/ ChildHandler \/ KeyHandlers \/ Children

Spec == Init /\ [][Next]_vars

(* A session in which neither key is pressed. *)
NoKeysInit == Start(MaxQuietPid) /\ child = NoChild
NoKeysNext == MainFlow \/ ChildHandler \/ Children
SpecNoKeys == NoKeysInit /\ [][NoKeysNext]_vars

(* ------------------------------------------------------------------ *)
(* The job table alone: any sequence of addjob and deletejob calls      *)
(* ------------------------------------------------------------------ *)
\* the state and the command line the call for pid passes: both states and
\* both command lines occur, in turn
TableState(pid) == IF pid % 2 = 1 THEN FG ELSE BG
TableCmdline(pid) == IF pid % 2 = 1 THEN <<"a", "|", "b">> ELSE <<"a", "&">>

TableAdd(pid) ==
    /\ pid = nextpid /\ nextpid <= MaxTablePid
    /\ jobs' = addjob(jobs, pid, TableState(pid), TableCmdline(pid)).jobs
    /\ nextpid' = nextpid + 1
    /\ UNCHANGED <<proc, lastpid, child, pc, loc, mask, pending, stack, shell, out, ndel>>

TableDelete(pid) ==
    /\ ndel < MaxDeletes
    /\ jobs' = deletejob(jobs, pid)
    /\ ndel' = ndel + 1
    /\ UNCHANGED <<proc, nextpid, lastpid, child, pc, loc, mask, pending, stack, shell, out>>

TableNext ==
    \/ \E pid \in 1 .. MaxTablePid : TableAdd(pid)
    \/ \E pid \in 0 .. MaxTablePid : TableDelete(pid)

TableSpec == Init /\ [][TableNext]_vars

(* ------------------------------------------------------------------ *)
(* A child from fork to execve: argv, check_pipeline, the redirections  *)
(* ------------------------------------------------------------------ *)
\* tokens on a command line
MaxArgs == 5
\* bytes in a file before the shell opens it, and bytes a program writes to
\* one of its streams
MaxFile == 2
MaxOut == 1

Tokens == {"a", "b", "<", ">", "|"}
\* the null pointer in a slot of argv, and a slot nothing has stored to
NullTok == "(null)"
Junk == "(junk)"

\* the slots of argv the model has: remove_args reads up to argv[argc + 1]
ArgvSlots == 0 .. (MaxArgs + 1)

CmdLines == UNION {[1 .. n -> Tokens] : n \in 1 .. MaxArgs}

\* argv as parseline leaves it for the tokens ts: the tokens, then NULL
parseline(ts) ==
    [k \in ArgvSlots |-> IF k < Len(ts) THEN ts[k + 1]
                         ELSE IF k = Len(ts) THEN NullTok ELSE Junk]

ArgvAt(arr, k) == IF k \in ArgvSlots THEN arr[k] ELSE Junk

\* arr[i] = arr[i + num_args] for i from index up to arr_l - 1, then
\* arr[index + num_args] = 0
remove_args(arr, arr_l, index, num_args) ==
    [k \in ArgvSlots |-> IF k = index + num_args THEN NullTok
                         ELSE IF index <= k /\ k < arr_l THEN ArgvAt(arr, k + num_args)
                         ELSE arr[k]]

\* memmove(argv, argv + i + 1, argc * sizeof(char *)); argv[argc] = 0
DropThrough(arr, i, argc) ==
    [k \in ArgvSlots |-> IF k < argc THEN ArgvAt(arr, k + i + 1)
                         ELSE IF k = argc THEN NullTok ELSE arr[k]]

FileContents == {[k \in 1 .. n |-> "o"] : n \in 0 .. MaxFile}
Written(b) == {[k \in 1 .. n |-> b] : n \in 0 .. MaxOut}

\* a file opened without O_TRUNC and without O_APPEND after w was written
\* from offset 0
Overwrite(prev, w) == w \o SubSeq(prev, Len(w) + 1, Len(prev))

\* the child just forked for the tokens ts, entering check_pipeline.
\* own is the number of tokens of the segment this process is to run, seen
\* the slots of argv the redirection loop has passed to strcmp.
ParsedChild(ts) ==
    [stage |-> "pipeline", tokens |-> ts, argv |-> parseline(ts), argc |-> Len(ts),
     i |-> 0, own |-> Len(ts), seen |-> {},
     stdin |-> "tty", stdout |-> "tty", stderr |-> "tty",
     before |-> << >>, file |-> << >>, wrote |-> << >>]

shellvars == <<jobs, proc, nextpid, lastpid, pc, loc, mask, pending, stack, shell, out, ndel>>

ArgInit == Start(MaxPid) /\ child \in {ParsedChild(ts) : ts \in CmdLines}

\* the slot where the loop of check_pipeline, at index i, next finds "|"
PipeAt(c) ==
    LET hits == {k \in (c.i) .. (c.argc - 1) : c.argv[k] = "|"}
    IN  IF hits = {} THEN NULL ELSE CHOOSE k \in hits : \A m \in hits : k <= m

\* check_pipeline finds no "|" and returns argc
ArgPipeNone ==
    /\ child.stage = "pipeline" /\ PipeAt(child) = NULL
    /\ child' = [child EXCEPT !.stage = "scan", !.i = 0]
    /\ UNCHANGED shellvars

\* check_pipeline forks at "|"; this is the parent of that fork: it reads
\* the pipe, stores 0 over "|", waits for the other process and returns argc
ArgPipeParent ==
    /\ child.stage = "pipeline" /\ PipeAt(child) # NULL
    /\ child' = [child EXCEPT !.stage = "scan", !.i = 0,
                              !.argv = [@ EXCEPT ![PipeAt(child)] = NullTok],
                              !.stdin = "pipe",
                              !.own = PipeAt(child)]
    /\ UNCHANGED shellvars

\* this is the process forked at "|": it writes the pipe, keeps the tokens
\* behind "|" and goes on in the loop with i = 0, i++
ArgPipeChild ==
    /\ child.stage = "pipeline" /\ PipeAt(child) # NULL
    /\ LET k == PipeAt(child)
           n == child.argc - (k + 1)
       IN  child' = [child EXCEPT !.argc = n,
                                  !.argv = DropThrough(@, k, n),
                                  !.i = 1,
                                  !.stdout = "pipe",
                                  !.own = n]
    /\ UNCHANGED shellvars

InScan == child.stage = "scan" /\ child.i < child.argc - 1

\* one round of the redirection loop of eval, argv[i] being a string
ArgScanStep ==
    /\ InScan
    /\ child.argv[child.i] # NullTok
    /\ LET i == child.i
           arg == child.argv[i]
           name == child.argv[i + 1]
           c == [child EXCEPT !.i = i + 1, !.seen = @ \cup {i}]
           removed == [c EXCEPT !.argv = remove_args(@, child.argc, i, 2),
                                !.argc = @ - 2]
       IN  IF arg = "<"
           THEN \E opens \in BOOLEAN :
                   child' = IF opens /\ name # NullTok
                            THEN [removed EXCEPT !.stdin = name]
                            ELSE [c EXCEPT !.stage = "exit"]
           ELSE IF arg = ">"
           THEN \E prev \in FileContents :
                   child' = IF name # NullTok
                            THEN [removed EXCEPT !.stdout = name, !.stderr = name,
                                                 !.before = prev, !.file = prev]
                            ELSE [c EXCEPT !.stage = "exit"]
           ELSE child' = c
    /\ UNCHANGED shellvars

\* argv[i] is NULL: strcmp(NULL, "<") is undefined.  The child goes on as
\* if the strings differed, or the access faults and kills it.
ArgScanNull ==
    /\ InScan
    /\ child.argv[child.i] = NullTok
    /\ child' = [child EXCEPT !.i = @ + 1, !.seen = @ \cup {child.i}]
    /\ UNCHANGED shellvars

ArgScanFault ==
    /\ InScan
    /\ child.argv[child.i] = NullTok
    /\ child' = [child EXCEPT !.stage = "fault", !.seen = @ \cup {child.i}]
    /\ UNCHANGED shellvars

\* the loop is over: execve(argv[0], argv, NULL)
ArgExec ==
    /\ child.stage = "scan" /\ ~InScan
    /\ child' = [child EXCEPT !.stage = "exec"]
    /\ UNCHANGED shellvars

\* the program runs: it writes to its standard output, then to its
\* standard error, and terminates
ArgProgram ==
    /\ child.stage = "exec"
    /\ \E so \in Written("s"), se \in Written("e") :
          child' = [child EXCEPT
                       !.stage = "done",
                       !.wrote = so,
                       !.file = IF child.stdout \in {"tty", "pipe"} THEN @
                                ELSE Overwrite(@, so \o (IF child.stderr = child.stdout
                                                         THEN se ELSE << >>))]
    /\ UNCHANGED shellvars

ArgNext ==
    \/ ArgPipeNone
    \/ ArgPipeParent
    \/ ArgPipeChild
    \/ ArgScanStep
    \/ ArgScanNull
    \/ ArgScanFault
    \/ ArgExec
    \/ ArgProgram

ArgSpec == ArgInit /\ [][ArgNext]_vars

(* ------------------------------------------------------------------ *)
(* Properties                                                           *)
(* ------------------------------------------------------------------ *)
LiveSlots(J) == {i \in Slots : J[i].pid # 0}
ForegroundEntries(J) == {i \in LiveSlots(J) : J[i].state = FG}

\* C1: in every reachable state the job table has at most one entry in
\* state Foreground.  Only entries of live jobs (pid # 0) are counted.
C1_AtMostOneForeground == Cardinality(ForegroundEntries(jobs)) <= 1

LiveJids(J) == {J[i].jid : i \in LiveSlots(J)}

\* the smallest positive integer no live entry has as its jid
SmallestUnusedJid(J) ==
    CHOOSE n \in 1 .. (MAXJOBS + 1) :
        n \notin LiveJids(J) /\ \A m \in 1 .. (n - 1) : m \in LiveJids(J)

\* C2: every addjob that stores an entry gives it the smallest positive
\* integer that is the jid of no live entry, which is at most MAXJOBS, and
\* the jids of the live entries stay pairwise distinct.
C2_JidSmallestUnused ==
    [][ /\ \A i \in Slots :
             (jobs[i].pid = 0 /\ jobs'[i].pid # 0)
                 => /\ jobs'[i].jid = SmallestUnusedJid(jobs)
                    /\ jobs'[i].jid <= MAXJOBS
        /\ \A i, k \in LiveSlots(jobs') : i # k => jobs'[i].jid # jobs'[k].jid
      ]_vars

\* the table is full, and a job added later than another has the smaller
\* jid: a jid that a removal freed was given out again
C2_FreedJidReused ==
    /\ LiveSlots(jobs) = Slots
    /\ \E i, k \in Slots : jobs[i].pid > jobs[k].pid /\ jobs[i].jid < jobs[k].jid

Frames == {stack[k] : k \in 1 .. Len(stack)}

\* C3: between fork and the return of addjob SIGCHLD is blocked and the
\* child-state handler does not run, so the new child is not reaped; a child
\* the handler reaps is in the table; and no live entry is left for a child
\* that was reaped, except the one the handler is about to delete.
C3_RegisteredBeforeReaped ==
    /\ pc = "e_forked" =>
          /\ "CHLD" \in mask
          /\ proc[loc.f].phase # "reaped"
          /\ \A f \in Frames : f.h # "CHLD"
    /\ \A f \in Frames :
          (f.h = "CHLD" /\ f.pc = "delete") => getjobpid(jobs, f.pid) # NULL
    /\ \A i \in LiveSlots(jobs) :
          proc[jobs[i].pid].phase = "reaped" =>
              \E f \in Frames : f.h = "CHLD" /\ f.pc = "delete" /\ f.pid = jobs[i].pid

\* the child has terminated, and its SIGCHLD is pending, before addjob ran
C3_ChildExitsBeforeAddjob ==
    /\ pc = "e_forked"
    /\ proc[loc.f].phase = "zombie"
    /\ "CHLD" \in pending
    /\ getjobpid(jobs, loc.f) = NULL

\* C4: waitfg is never left asleep in sigsuspend when pid is not the
\* foreground job: not with every notification of the change already
\* consumed (no handler running, no signal pending, no child about to stop).
C4_NoLostWakeup ==
    ~ ( /\ shell = "running"
        /\ pc = "w_sleep"
        /\ stack = << >>
        /\ pending = {}
        /\ \A p \in Pids : ~proc[p].tstp
        /\ loc.wpid # fgpid(jobs) )

\* C5: eval of a command without "&" returns to the prompt only when the
\* job it launched is no longer a Foreground entry of the table.
C5_EvalWaitsForForeground ==
    [][ (loc.f # 0 /\ loc.state = FG /\ pc # "prompt" /\ pc' = "prompt")
            => \A i \in LiveSlots(jobs') :
                   jobs'[i].pid = loc.f => jobs'[i].state # FG
      ]_vars

\* C6: the interrupt handler, having sent the signal to the foreground job,
\* prints the report with the jid and the pid of that job.
C6_InterruptReported ==
    [][ SigintReport
            => /\ shell' = "running"
               /\ \E i \in LiveSlots(jobs) :
                     jobs[i].pid = Top.pid /\ out' = IntLine(jobs[i])
      ]_vars

\* C7: the shell does not end in the handler of the interrupt key or of
\* the suspend key.
C7_KeysNeverEndShell ==
    shell # "running" => (stack = << >> \/ Top.h \notin {"INT", "TSTP"})

\* C8: the signal a key handler forwards reaches every process of the
\* foreground job.
C8_WholeJobSignalled == \A f \in Frames : f.missed = {}

RunningForeground == {i \in ForegroundEntries(jobs) : proc[jobs[i].pid].phase = "run"}

\* C9: when the suspend key arrives while a foreground job is running and
\* its handler completes, the entry of that job is Stopped, with its pid,
\* jid and command line, and no other entry has changed.
C9_SuspendMarksStopped ==
    [][ /\ KeyNoForeground("TSTP") => RunningForeground = {}
        /\ (SigtstpMark /\ shell' = "running")
              => \E i \in LiveSlots(jobs) :
                    /\ jobs[i].pid = Top.pid
                    /\ jobs' = [jobs EXCEPT ![i].state = ST]
      ]_vars

\* C10: eval of a command with "&" returns to the prompt having printed
\* the line "[<jid>] (<pid>) <command_line>" of the new job, with jid 1
\* when the table holds no other job.
C10_BackgroundAnnounced ==
    [][ EvalAnnounce
            => /\ pc' = "prompt"
               /\ \E i \in LiveSlots(jobs) :
                     /\ jobs[i].pid = loc.f
                     /\ out' = AnnounceLine_Plain(jobs[i])
                     /\ jobs[i].cmdline = loc.argv
                     /\ LiveSlots(jobs) = {i} => jobs[i].jid = 1
      ]_vars

InFg == loc.argv = <<"fg">> /\ pc # "prompt"

\* C11: once fg has found its job J, the state it sets is that of J's entry,
\* the continue request goes to J's process group and reaches it, and fg
\* returns to the prompt only after that request, having waited for J, when
\* J is no longer a Foreground entry.
C11_FgWaitsForItsJob ==
    [][ /\ FgSet => /\ jobs'[loc.job].pid = loc.pid
                    /\ jobs'[loc.job].state = FG
        /\ FgKill => /\ shell' = "running"
                     /\ KillTargets(proc, -(jobs[loc.job].pid)) = {Leader(loc.pid)}
        /\ (InFg /\ pc' = "prompt")
              => /\ pc = "w_check"
                 /\ loc.wpid = loc.pid
                 /\ \A i \in LiveSlots(jobs') :
                        jobs'[i].pid = loc.pid => jobs'[i].state # FG
      ]_vars

\* the target names a live job: by its jid after "%", by its pid otherwise
LiveMatch(J, t) ==
    \E i \in LiveSlots(J) : t[2] = (IF t[1] = "%" THEN J[i].jid ELSE J[i].pid)

\* the steps that can be the first step of do_bgfg: taken at the prompt, they
\* go on to the found job or print the "No such job" line
DoBgFgStep ==
    /\ pc = "prompt"
    /\ pc' \in {"b_found", "f_found"} \/ out'.head = "%s: No such job\n"

\* C12: bg and fg go on to the job only for a target that names a live job;
\* for any other target the step prints the "No such job" line, returns to
\* the prompt, signals no process and changes no slot of the table.
C12_NoSuchJobIsInert ==
    [][ DoBgFgStep =>
          \A cmd \in {"bg", "fg"}, t \in Targets :
            /\ BgFgLookup(cmd, t) => LiveMatch(jobs, t)
            /\ BgFgNoSuchJob(cmd, t)
                  => /\ ~LiveMatch(jobs, t)
                     /\ out' = NoSuchJobLine(t)
                     /\ pc' = "prompt"
                     /\ jobs' = jobs /\ proc' = proc /\ pending' = pending
      ]_vars

\* the line was printed while the table held live jobs and a cleared slot
\* that do_bgfg had written to
C12_NoSuchJobAmongJobs ==
    /\ out.head = "%s: No such job\n"
    /\ LiveSlots(jobs) # {}
    /\ \E i \in Slots : jobs[i].pid = 0 /\ jobs[i].state # UNDEF

\* a pipeline whose helper is blocked writing to the full pipe while its
\* leader, the only reader, waits for the helper to terminate
Wedged(p) == proc[p].phase = "pipe" /\ proc[p].data > 0

\* C13: a pipeline job can always go on to its completion, whatever amount
\* of data is written into the pipe: its processes never block one another
\* for good.
C13_PipelineCompletes == \A p \in Pids : ~Wedged(p)

\* the argument vector execve gets: the slots of argv before the first NULL
ExecArgv(c) ==
    LET n == CHOOSE k \in ArgvSlots :
                 c.argv[k] = NullTok /\ \A m \in 0 .. (k - 1) : c.argv[m] # NullTok
    IN  [k \in 1 .. n |-> c.argv[k - 1]]

RECURSIVE Stripped(_)
\* the tokens without each "<" or ">" that has a token after it, and
\* without that token
Stripped(ts) ==
    IF ts = << >> THEN << >>
    ELSE IF Head(ts) \in {"<", ">"} /\ Len(ts) >= 2 THEN Stripped(Tail(Tail(ts)))
    ELSE <<Head(ts)>> \o Stripped(Tail(ts))

PipeFree(ts) == \A k \in 1 .. Len(ts) : ts[k] # "|"

\* C14: for a command line without "|", execve gets the tokens without the
\* redirection operators and their file names, in the order they had, and
\* argc is their number.
C14_RedirectionsStripped ==
    (child.stage = "exec" /\ PipeFree(child.tokens))
        => /\ ExecArgv(child) = Stripped(child.tokens)
           /\ child.argc = Len(Stripped(child.tokens))

\* C15: when the program of "a > b" has run, file b holds exactly the bytes
\* the program wrote to its standard output, whatever b held before; the
\* program of "a < b" has file b as its standard input.
C15_RedirectedStreams ==
    /\ (child.stage = "done" /\ child.tokens = <<"a", ">", "b">>)
          => /\ child.stdout = "b"
             /\ child.file = child.wrote
    /\ (child.stage = "done" /\ child.tokens = <<"a", "<", "b">>)
          => child.stdin = "b"

\* C16: a child that has terminated is not forgotten: SIGCHLD is pending or
\* the child-state handler is running, also when one SIGCHLD stands for
\* several children; the handler removes the job of each child it reaps; and
\* the shell is not killed over a job the handler has removed.
C16_TerminatedJobsReaped ==
    /\ (shell = "running" /\ Zombies # {})
          => ("CHLD" \in pending \/ \E f \in Frames : f.h = "CHLD")
    /\ \A i \in LiveSlots(jobs) :
          proc[jobs[i].pid].phase = "reaped" =>
              \E f \in Frames : f.h = "CHLD" /\ f.pc = "delete" /\ f.pid = jobs[i].pid
    /\ shell \notin NullDeref

\* C17: an addjob call on a table with no free slot returns 0 and changes
\* no slot; on a table with a free slot it returns 1 and stores the pid, the
\* state, the smallest free jid and the command line in one free slot,
\* changing no other slot.
C17_AddjobFullOrStored ==
    [][ nextpid' # nextpid =>
          LET ret == addjob(jobs, nextpid, TableState(nextpid), TableCmdline(nextpid)).ret
          IN  IF LiveSlots(jobs) = Slots
              THEN ret = 0 /\ jobs' = jobs
              ELSE /\ ret = 1
                   /\ \E i \in Slots \ LiveSlots(jobs) :
                         jobs' = [jobs EXCEPT ![i] =
                                     [pid |-> nextpid,
                                      jid |-> SmallestUnusedJid(jobs),
                                      state |-> TableState(nextpid),
                                      cmdline |-> TableCmdline(nextpid)]]
      ]_vars

\* the table is full and more addjob calls were made than the slots and the
\* deletejob calls can account for: one of them found the table full
C17_AddjobRefused ==
    /\ LiveSlots(jobs) = Slots
    /\ nextpid - 1 > MAXJOBS + ndel

\* C18: while the main flow is between reading the job table and writing
\* to it (eval before addjob, do_bgfg between its lookup and the assignment
\* of the state) SIGCHLD, SIGINT and SIGTSTP are blocked and no handler runs.
C18_TableUpdatesBlocked ==
    pc \in {"e_forked", "b_found", "f_found"}
        => (Signals \subseteq mask /\ stack = << >>)

\* C19: a process leaves check_pipeline with argc counting the tokens of
\* its own segment only, and its redirection loop never reads the slot
\* where "|" was, which holds the null pointer.
C19_OwnSegmentOnly ==
    /\ (child.stage = "scan" /\ child.seen = {}) => child.argc = child.own
    /\ InScan => child.argv[child.i] # NullTok

AllowedTransitions == {<<FG, ST>>, <<ST, FG>>, <<BG, FG>>, <<ST, BG>>}

\* C20: a step that changes the state of a live job's entry changes it from
\* Foreground to Stopped, from Stopped or Background to Foreground, or from
\* Stopped to Background; never from Foreground to Background.
C20_StateTransitions ==
    [][ \A i \in Slots :
            (jobs[i].pid # 0 /\ jobs'[i].pid = jobs[i].pid /\ jobs'[i].state # jobs[i].state)
                => <<jobs[i].state, jobs'[i].state>> \in AllowedTransitions
      ]_vars

\* a slot as clearjob leaves it, and a slot that holds a job
ClearSlot(j) == j.pid = 0 /\ j.jid = 0 /\ j.state = UNDEF
WholeJob(j) == j.pid > 0 /\ j.jid \in 1 .. MAXJOBS /\ j.state \in {FG, BG, ST}

\* C21: every slot of the job table is entirely clear (pid 0, jid 0, state
\* UNDEF) or entirely live (pid > 0, jid in 1..MAXJOBS, state FG, BG or ST),
\* whatever the interleaving of do_bgfg and the handlers, and no two live
\* slots hold the same pid.
C21_SlotsClearOrLive ==
    /\ \A i \in Slots : ClearSlot(jobs[i]) \/ WholeJob(jobs[i])
    /\ \A i, k \in LiveSlots(jobs) : jobs[i].pid = jobs[k].pid => i = k

\* C22: each lookup whose result is dereferenced unchecked finds a live
\* entry: getjobpid(jobs, f) of eval's background announcement, and
\* getjobpid(jobs, fg) of the interrupt and of the suspend handler, whatever
\* the child-state handler has removed in between.
C22_UncheckedLookupsFind ==
    /\ (MainRuns /\ pc = "e_tail" /\ loc.state = BG)
          => getjobpid(jobs, loc.f) # NULL
    /\ InHandler("INT", "look") => getjobpid(jobs, Top.pid) # NULL
    /\ InHandler("TSTP", "look") => getjobpid(jobs, Top.pid) # NULL
====
